---- MODULE Spec2Model ----
(***************************************************************************)
(* Print agent: the /print/raw handler of printer_service_windows.py (raw  *)
(* ESC/POS path through win32print) and of printer_service_mac.py          *)
(* (rendered PNG path through lp).                                         *)
(*                                                                         *)
(* Text is a sequence of code points, a byte string a sequence of 0..255.  *)
(* A JSON value of the request body is a record [t, v]: t is "absent",     *)
(* "str", "num", "true" or "false" and v the characters (or the number).   *)
(***************************************************************************)
EXTENDS Integers, Sequences, FiniteSets, TLC

(***************************************************************************)
(* Bounds of the model.                                                    *)
(***************************************************************************)
\* Logo images of the input catalogue have heights 1..MaxLogoHeight.
MaxLogoHeight == 2

(***************************************************************************)
(* JSON values and Python truthiness.                                      *)
(***************************************************************************)
Absent == [t |-> "absent", v |-> <<>>]
Str(s) == [t |-> "str", v |-> s]
Num(n) == [t |-> "num", v |-> <<n>>]
JTrue  == [t |-> "true", v |-> <<>>]
JFalse == [t |-> "false", v |-> <<>>]

\* bool(x) of a value read with dict.get: None, False, "" and 0 are falsy.
Truthy(j) ==
    \/ j.t = "true"
    \/ j.t = "str" /\ j.v # <<>>
    \/ j.t = "num" /\ j.v # <<0>>

(***************************************************************************)
(* base64.b64decode(s) with validate=False (binascii.a2b_base64).          *)
(***************************************************************************)
B64Val(c) ==
    IF c \in 65..90 THEN c - 65
    ELSE IF c \in 97..122 THEN c - 71
    ELSE IF c \in 48..57 THEN c + 4
    ELSE IF c = 43 THEN 62
    ELSE IF c = 47 THEN 63
    ELSE 64

Failed == [ok |-> FALSE, bytes |-> <<>>]
Ok(b) == [ok |-> TRUE, bytes |-> b]

RECURSIVE A2B(_, _, _, _, _, _)
A2B(s, i, quad, left, pads, out) ==
    IF i > Len(s)
    THEN IF quad # 0 THEN Failed ELSE Ok(out)
    ELSE LET c == s[i]
             d == B64Val(c)
         IN  IF c = 61
             THEN IF quad >= 2 /\ quad + pads + 1 >= 4
                  THEN Ok(out)
                  ELSE A2B(s, i + 1, quad, left,
                           IF quad >= 2 THEN pads + 1 ELSE pads, out)
             ELSE IF d >= 64
             THEN A2B(s, i + 1, quad, left, pads, out)
             ELSE IF quad = 0
             THEN A2B(s, i + 1, 1, d, 0, out)
             ELSE IF quad = 1
             THEN A2B(s, i + 1, 2, d % 16, 0,
                      Append(out, left * 4 + (d \div 16)))
             ELSE IF quad = 2
             THEN A2B(s, i + 1, 3, d % 4, 0,
                      Append(out, left * 16 + (d \div 4)))
             ELSE A2B(s, i + 1, 0, 0, 0, Append(out, left * 64 + d))

\* A str argument is encoded as ASCII first (ValueError otherwise); a value
\* that is not a string raises TypeError.
B64Decode(j) ==
    IF j.t # "str" THEN Failed
    ELSE IF \E i \in 1..Len(j.v) : j.v[i] > 127 THEN Failed
    ELSE A2B(j.v, 1, 0, 0, 0, <<>>)

\* base64.b64encode, used to build well-formed inputs.
B64Chr(d) ==
    IF d < 26 THEN d + 65
    ELSE IF d < 52 THEN d + 71
    ELSE IF d < 62 THEN d - 4
    ELSE IF d = 62 THEN 43 ELSE 47

RECURSIVE B64Encode(_)
B64Encode(b) ==
    IF Len(b) = 0 THEN <<>>
    ELSE IF Len(b) = 1
    THEN <<B64Chr(b[1] \div 4), B64Chr((b[1] % 4) * 16), 61, 61>>
    ELSE IF Len(b) = 2
    THEN <<B64Chr(b[1] \div 4), B64Chr((b[1] % 4) * 16 + (b[2] \div 16)),
           B64Chr((b[2] % 16) * 4), 61>>
    ELSE <<B64Chr(b[1] \div 4), B64Chr((b[1] % 4) * 16 + (b[2] \div 16)),
           B64Chr((b[2] % 16) * 4 + (b[3] \div 64)), B64Chr(b[3] % 64)>>
         \o B64Encode(SubSeq(b, 4, Len(b)))

(***************************************************************************)
(* bytes.decode("utf-8", errors="ignore") and str.encode("utf-8").         *)
(***************************************************************************)
IsCont(b, i) == i <= Len(b) /\ b[i] \in 128..191

RECURSIVE Utf8Decode(_, _, _)
Utf8Decode(b, i, out) ==
    IF i > Len(b) THEN out
    ELSE LET c == b[i] IN
         IF c < 128 THEN Utf8Decode(b, i + 1, Append(out, c))
         ELSE IF c \in 194..223
         THEN IF IsCont(b, i + 1)
              THEN Utf8Decode(b, i + 2,
                       Append(out, (c - 192) * 64 + (b[i + 1] - 128)))
              ELSE Utf8Decode(b, i + 1, out)
         ELSE IF c \in 224..239
         THEN LET lo == IF c = 224 THEN 160 ELSE 128
                  hi == IF c = 237 THEN 159 ELSE 191
              IN  IF ~(i + 1 <= Len(b) /\ b[i + 1] \in lo..hi)
                  THEN Utf8Decode(b, i + 1, out)
                  ELSE IF ~IsCont(b, i + 2)
                  THEN Utf8Decode(b, i + 2, out)
                  ELSE Utf8Decode(b, i + 3,
                           Append(out, (c - 224) * 4096
                                       + (b[i + 1] - 128) * 64
                                       + (b[i + 2] - 128)))
         ELSE IF c \in 240..244
         THEN LET lo == IF c = 240 THEN 144 ELSE 128
                  hi == IF c = 244 THEN 143 ELSE 191
              IN  IF ~(i + 1 <= Len(b) /\ b[i + 1] \in lo..hi)
                  THEN Utf8Decode(b, i + 1, out)
                  ELSE IF ~IsCont(b, i + 2)
                  THEN Utf8Decode(b, i + 2, out)
                  ELSE IF ~IsCont(b, i + 3)
                  THEN Utf8Decode(b, i + 3, out)
                  ELSE Utf8Decode(b, i + 4,
                           Append(out, (c - 240) * 262144
                                       + (b[i + 1] - 128) * 4096
                                       + (b[i + 2] - 128) * 64
                                       + (b[i + 3] - 128)))
         ELSE Utf8Decode(b, i + 1, out)

RECURSIVE Utf8Encode(_)
Utf8Encode(s) ==
    IF s = <<>> THEN <<>>
    ELSE LET c == Head(s)
             e == IF c < 128 THEN <<c>>
                  ELSE IF c < 2048 THEN <<192 + (c \div 64), 128 + (c % 64)>>
                  ELSE IF c < 65536
                  THEN <<224 + (c \div 4096), 128 + ((c \div 64) % 64),
                         128 + (c % 64)>>
                  ELSE <<240 + (c \div 262144), 128 + ((c \div 4096) % 64),
                         128 + ((c \div 64) % 64), 128 + (c % 64)>>
         IN  e \o Utf8Encode(Tail(s))

(***************************************************************************)
(* str.strip() and str.split("\n").                                        *)
(***************************************************************************)
IsSpace(c) ==
    c \in (9..13) \cup (28..32) \cup {133, 160, 5760} \cup (8192..8202)
          \cup {8232, 8233, 8239, 8287, 12288}

RECURSIVE LStrip(_)
LStrip(s) == IF s # <<>> /\ IsSpace(Head(s)) THEN LStrip(Tail(s)) ELSE s

RECURSIVE RStrip(_)
RStrip(s) ==
    IF s # <<>> /\ IsSpace(s[Len(s)])
    THEN RStrip(SubSeq(s, 1, Len(s) - 1)) ELSE s

Strip(s) == RStrip(LStrip(s))

\* len(s.split("\n"))
LineCount(s) == 1 + Cardinality({i \in 1..Len(s) : s[i] = 10})

(***************************************************************************)
(* Images.  PIL.Image.open is modelled over a seven-byte container: the    *)
(* magic byte 137, the width as a big-endian uint16, the height as a       *)
(* big-endian uint24 and one gray level shared by all pixels (the image    *)
(* after the compositing onto white and the conversion to "L").  Anything  *)
(* else is not an image.                                                   *)
(***************************************************************************)
NoImage == [ok |-> FALSE, width |-> 0, height |-> 0, gray |-> 0]
Img(w, h, g) == [ok |-> TRUE, width |-> w, height |-> h, gray |-> g]

ImageBytes(w, h, g) ==
    <<137, w \div 256, w % 256,
      h \div 65536, (h \div 256) % 256, h % 256, g>>

ImageOpen(b) ==
    IF /\ Len(b) = 7 /\ b[1] = 137
       /\ b[2] * 256 + b[3] > 0
       /\ b[4] * 65536 + b[5] * 256 + b[6] > 0
    THEN Img(b[2] * 256 + b[3], b[4] * 65536 + b[5] * 256 + b[6], b[7])
    ELSE NoImage

\* The payload of a data URL: what follows the first comma, if there is one.
RECURSIVE AfterComma(_)
AfterComma(s) ==
    IF s = <<>> THEN <<>>
    ELSE IF Head(s) = 44 THEN Tail(s) ELSE AfterComma(Tail(s))

StripDataUrl(s) == IF \E i \in 1..Len(s) : s[i] = 44 THEN AfterComma(s) ELSE s

(***************************************************************************)
(* int(im.height * ratio) with ratio = MAX_WIDTH / float(im.width): the    *)
(* division and the product are IEEE 754 double operations (53-bit         *)
(* significand, round to nearest, ties to even), and int() truncates.      *)
(* Significands are sequences of bits, most significant first.             *)
(***************************************************************************)
RECURSIVE ToBin(_)
ToBin(n) == IF n = 0 THEN <<>> ELSE Append(ToBin(n \div 2), n % 2)

RECURSIVE ToInt(_)
ToInt(bits) ==
    IF bits = <<>> THEN 0
    ELSE 2 * ToInt(SubSeq(bits, 1, Len(bits) - 1)) + bits[Len(bits)]

RECURSIVE Inc(_)
Inc(bits) ==
    IF bits = <<>> THEN <<1>>
    ELSE IF bits[Len(bits)] = 0
    THEN SubSeq(bits, 1, Len(bits) - 1) \o <<1>>
    ELSE Inc(SubSeq(bits, 1, Len(bits) - 1)) \o <<0>>

\* bits without its d lowest bits, rounded to nearest, ties to even; sticky
\* tells that the exact value has non-zero bits below them.
RoundBits(bits, d, sticky) ==
    LET keep  == SubSeq(bits, 1, Len(bits) - d)
        guard == bits[Len(bits) - d + 1]
        rest  == sticky
                 \/ \E i \in (Len(bits) - d + 2)..Len(bits) : bits[i] = 1
    IN  IF guard = 1 /\ (rest \/ keep[Len(keep)] = 1) THEN Inc(keep)
        ELSE keep

\* rem / den < 1 scaled by 2^k so that its next binary digit is 1.
RECURSIVE Normalize(_, _, _)
Normalize(rem, den, k) ==
    IF 2 * rem >= den THEN [rem |-> rem, k |-> k]
    ELSE Normalize(2 * rem, den, k + 1)

\* The next n binary digits of rem / den, and the remainder left.
DivBits(rem, den, n) ==
    LET r[i \in 0..n] == IF i = 0 THEN rem ELSE (2 * r[i - 1]) % den
    IN  [bits |-> [i \in 1..n |-> (2 * r[i - 1]) \div den], rem |-> r[n]]

\* The exact product of the bits and the integer factor; c[j] is the carry
\* out of the j lowest bits.
MulBits(bits, factor) ==
    LET c[j \in 0..Len(bits)] ==
            IF j = 0 THEN 0
            ELSE (bits[Len(bits) - j + 1] * factor + c[j - 1]) \div 2
    IN  ToBin(c[Len(bits)])
        \o [i \in 1..Len(bits) |->
               (bits[i] * factor + c[Len(bits) - i]) % 2]

\* int(height * (target / float(width))), for width > target.
FloatHeight(height, target, width) ==
    LET nrm   == Normalize(target, width, 0)
        q     == DivBits(nrm.rem, width, 54)
        ratio == RoundBits(q.bits, 1, q.rem # 0)
        prod  == MulBits(ratio, height)
        drop  == Len(prod) - 53
        fl    == IF drop > 0 THEN RoundBits(prod, drop, FALSE) ELSE prod
        shift == nrm.k + 53 - (IF drop > 0 THEN drop ELSE 0)
    IN  IF shift >= Len(fl) THEN 0
        ELSE ToInt(SubSeq(fl, 1, Len(fl) - shift))

\* Mutant of Resize: the height that rounds down to 0 is not refused.
ResizeNoCheck(im, max_width) ==
    IF ~im.ok \/ im.width <= max_width THEN im
    ELSE Img(max_width, FloatHeight(im.height, max_width, im.width), im.gray)

\* im.resize((max_width, int(im.height * ratio))) when the image is wider
\* than max_width; Pillow refuses a height of 0 (ValueError).
Resize(im, max_width) ==
    IF ~im.ok \/ im.width <= max_width THEN im
    ELSE LET new_height == FloatHeight(im.height, max_width, im.width)
         IN  IF new_height = 0 THEN NoImage
             ELSE Img(max_width, new_height, im.gray)

(***************************************************************************)
(* convert_image_to_escpos (Windows): base64 logo -> GS v 0 raster block.  *)
(***************************************************************************)
MAX_WIDTH == 384
threshold == 190

\* Mutant of Threshold: the comparison is not strict.
ThresholdInclusive(p) == IF p >= threshold THEN 255 ELSE 0

\* im.point(lambda p: 255 if p > threshold else 0)
Threshold(p) == IF p > threshold THEN 255 ELSE 0

RECURSIVE Pow2(_)
Pow2(n) == IF n = 0 THEN 1 ELSE 2 * Pow2(n - 1)

\* One row of im.convert("1").tobytes(): eight pixels a byte, MSB first, a
\* set bit for a white pixel, the row padded with cleared bits.
PackRow(width, white) ==
    LET width_bytes == (width + 7) \div 8
        last == IF width % 8 = 0 THEN 255 ELSE 256 - Pow2(8 - (width % 8))
    IN  [i \in 1..width_bytes |->
            IF ~white THEN 0 ELSE IF i = width_bytes THEN last ELSE 255]

\* n copies of row, one after the other.
Repeat(row, n) ==
    [i \in 1..(Len(row) * n) |-> row[((i - 1) % Len(row)) + 1]]

ToBytes(im) == Repeat(PackRow(im.width, Threshold(im.gray) = 255), im.height)

\* img_bytes[i] ^= 0xFF
Invert(b) == [i \in 1..Len(b) |-> 255 - b[i]]

\* Mutant of LE16: the two bytes are emitted high byte first.
BE16(n) == <<n \div 256, n % 256>>

\* n.to_bytes(2, "little")
LE16(n) == <<n % 256, n \div 256>>

RasterHeader(im) ==
    <<29, 118, 48, 0>> \o LE16((im.width + 7) \div 8) \o LE16(im.height)

\* The try block of convert_image_to_escpos: every failure gives b"".
EscposOf(s) ==
    LET dec == B64Decode(Str(StripDataUrl(s)))
        im  == IF dec.ok THEN Resize(ImageOpen(dec.bytes), MAX_WIDTH)
               ELSE NoImage
    IN  IF ~im.ok \/ (im.width + 7) \div 8 >= 65536 \/ im.height >= 65536
        THEN <<>>
        ELSE RasterHeader(im) \o Invert(ToBytes(im))

\* The two debug prints before the try take len() and a slice of the
\* argument: a logo that is not a string raises there, outside the try.
convert_image_to_escpos(j) ==
    IF j.t # "str" THEN [raised |-> TRUE, bytes |-> <<>>]
    ELSE [raised |-> FALSE, bytes |-> EscposOf(j.v)]

(***************************************************************************)
(* render_receipt_to_image (macOS): logo decoding and canvas size.         *)
(***************************************************************************)
max_width == 576
line_height == 18
padding_top == 20
padding_bottom == 20
spacing_logo_text == 20

\* The try block around the logo decoding: every failure gives None.
DecodeLogoImage(j) ==
    IF ~Truthy(j) \/ j.t # "str" THEN NoImage
    ELSE LET dec == B64Decode(Str(StripDataUrl(j.v)))
         IN  IF dec.ok THEN Resize(ImageOpen(dec.bytes), max_width)
             ELSE NoImage

\* Mutant of CanvasHeight: the spacing is reserved without a logo too.
CanvasHeightSpacingAlways(plain_text, logo_img) ==
    LET logo_height == IF logo_img.ok THEN logo_img.height ELSE 0
    IN  padding_top + logo_height + spacing_logo_text
        + line_height * LineCount(plain_text) + padding_bottom

CanvasHeight(plain_text, logo_img) ==
    LET logo_height == IF logo_img.ok THEN logo_img.height ELSE 0
        text_height == line_height *
                       (IF LineCount(plain_text) > 1
                        THEN LineCount(plain_text) ELSE 1)
    IN  padding_top + logo_height
        + (IF logo_img.ok THEN spacing_logo_text ELSE 0)
        + text_height + padding_bottom

(***************************************************************************)
(* Requests.  Each /print/raw request is served by one of the two          *)
(* handlers; the selected printer is read from disk and does not change.   *)
(***************************************************************************)
Reqs == {1, 2}

TOTAL == <<84, 111, 116, 97, 108, 58, 32, 49, 48, 10>>   \* "Total: 10\n"

PlainTexts == {Absent, Str(<<>>), Str(<<32, 10>>), Str(TOTAL)}

DataFields ==
    {Absent, Str(<<>>),
     Str(<<65>>),                              \* "A": not base64
     Str(<<61, 61, 61, 61>>),                  \* "====": decodes to b""
     Str(B64Encode(<<32, 32, 32>>)),           \* three spaces
     Str(B64Encode(<<84, 255, 10>>)),          \* "T", an invalid byte, "\n"
     Str(B64Encode(Utf8Encode(<<233, 10>>))),  \* "e-acute\n"
     Str(B64Encode(Utf8Encode(TOTAL)))}

LogoImages ==
    {ImageBytes(w, h, g) : w \in {9, 600}, h \in 1..MaxLogoHeight,
                           g \in {threshold, threshold + 1}}

Logos ==
    {Absent, Str(<<>>), Num(5),
     Str(<<65>>),                              \* "A": not base64
     Str(B64Encode(<<84, 49, 10>>)),           \* base64 of bytes, no image
     Str(<<100, 58, 120, 44>> \o B64Encode(ImageBytes(1, 1, 0)))}  \* "d:x,.."
    \cup {Str(B64Encode(b)) : b \in LogoImages}

PrintLogos == {Absent, JFalse, JTrue}

Bodies ==
    [plainTextReceipt : PlainTexts, data : DataFields, logo : Logos,
     printLogo : PrintLogos]

NoBody ==
    [plainTextReceipt |-> Absent, data |-> Absent, logo |-> Absent,
     printLogo |-> Absent]

NoResp == [code |-> 0, msg |-> "none"]
Resp(c, m) == [code |-> c, msg |-> m]

NoLocals ==
    [receipt_bytes |-> <<>>, logo_bytes |-> <<>>, ph |-> "none", doc |-> 0,
     exc |-> "none", plain_text |-> <<>>, logo_for_render |-> Absent,
     logo_img |-> NoImage, height |-> 0, png_path |-> 0, lp |-> "none",
     route |-> "/print/raw"]

NoHist ==
    [opens |-> 0, docs |-> 0, converts |-> 0, tmps |-> 0, lps |-> 0,
     handleOpenAtLp |-> FALSE, raised |-> {}]

\* A call of one function: its name, its argument, the image the argument
\* encodes (NoImage if none), and its result once it has returned.
NoCall ==
    [fn |-> "none", arg |-> <<>>, src |-> NoImage, returned |-> FALSE,
     out |-> <<>>]

VARIABLES
    printer,   \* load_selected(): TRUE when a printer is selected
    plat,      \* plat[r]: the handler serving r, "windows" or "mac"
    body,      \* body[r]: request.get_json()
    pc,        \* pc[r]: position of the handler
    loc,       \* loc[r]: the handler's local variables
    resp,      \* resp[r]: the HTTP response, NoResp until it returns
    spool,     \* print documents started with StartDocPrinter
    fs,        \* temporary files made by NamedTemporaryFile
    hist,      \* hist[r]: the calls r made and the calls that raised
    call       \* a function of the pipeline called on its own (NoCall if none)

vars == <<printer, plat, body, pc, loc, resp, spool, fs, hist, call>>

Init ==
    /\ printer \in BOOLEAN
    /\ \E p \in {"windows", "mac"}, b \in Bodies :
          /\ plat = [r \in Reqs |-> p]
          /\ body = [r \in Reqs |-> IF r = 1 THEN b ELSE NoBody]
    /\ pc = [r \in Reqs |-> IF r = 1 THEN "start" ELSE "idle"]
    /\ loc = [r \in Reqs |-> NoLocals]
    /\ resp = [r \in Reqs |-> NoResp]
    /\ spool = <<>>
    /\ fs = <<>>
    /\ hist = [r \in Reqs |-> NoHist]
    /\ call = NoCall

(***************************************************************************)
(* Helpers of the actions.                                                 *)
(***************************************************************************)
Return(r, c, m) ==
    /\ resp' = [resp EXCEPT ![r] = Resp(c, m)]
    /\ pc' = [pc EXCEPT ![r] = "done"]

Goto(r, l) == pc' = [pc EXCEPT ![r] = l] /\ UNCHANGED resp

\* The call named e raised, after h (the calls made so far).
Raised(h, e) == [h EXCEPT !.raised = @ \cup {e}]

\* An exception inside the inner try of the Windows handler: control goes
\* to the finally block with the exception pending.
RaiseInner(r, e) ==
    /\ loc' = [loc EXCEPT ![r].exc = e]
    /\ Goto(r, "w_enddoc")

\* except Exception as e: return jsonify(error=str(e)), 500
Except(r, e) == Return(r, 500, e)

\* Mutant of WritePrinter: the handle is shared by the requests, and a
\* write goes to the document started last.
WritePrinterShared(r, seg) ==
    spool' = [spool EXCEPT ![Len(spool)].segs = Append(@, seg)]

\* win32print.WritePrinter(ph, seg) on the document of r.
WritePrinter(r, seg) ==
    spool' = [spool EXCEPT ![loc[r].doc].segs = Append(@, seg)]

\* Mutant of drawer_cmd: the pulse goes to drawer pin 1.
drawer_cmd_pin1 == <<27, 112, 1, 25, 250>>

drawer_cmd == <<27, 112, 0, 25, 250>>
ALIGN_CENTER == <<27, 97, 1>>
ALIGN_LEFT == <<27, 97, 0>>

\* Mutant of ShouldPrintLogo: the printLogo flag is not consulted.
ShouldPrintLogoAnyLogo(b) == Truthy(b.logo)

\* if should_print_logo and b64_logo
ShouldPrintLogo(b) == Truthy(b.printLogo) /\ Truthy(b.logo)

(***************************************************************************)
(* print_raw_bytes, Windows (raw path).  Every win32print call either      *)
(* succeeds or raises.                                                     *)
(***************************************************************************)
\* load_selected, request.get_json and the check of the data field.
WinValidate(r) ==
    /\ pc[r] = "start" /\ plat[r] = "windows"
    /\ IF ~printer THEN Return(r, 404, "No printer selected")
       ELSE IF ~Truthy(body[r].data) THEN Return(r, 400, "No data provided")
       ELSE Goto(r, "w_decode")
    /\ UNCHANGED <<call, printer, plat, body, loc, spool, fs, hist>>

\* receipt_bytes = base64.b64decode(b64_text), inside the outer try.
WinDecode(r) ==
    /\ pc[r] = "w_decode"
    /\ LET dec == B64Decode(body[r].data)
       IN  IF dec.ok
           THEN /\ loc' = [loc EXCEPT ![r].receipt_bytes = dec.bytes]
                /\ Goto(r, "w_open")
                /\ UNCHANGED hist
           ELSE /\ Except(r, "b64decode")
                /\ hist' = [hist EXCEPT ![r] = Raised(@, "b64decode")]
                /\ UNCHANGED loc
    /\ UNCHANGED <<call, printer, plat, body, spool, fs>>

WinOpenPrinter(r) ==
    /\ pc[r] = "w_open"
    /\ \/ /\ loc' = [loc EXCEPT ![r].ph = "open"]
          /\ hist' = [hist EXCEPT ![r].opens = @ + 1]
          /\ Goto(r, "w_startdoc")
       \/ /\ Except(r, "OpenPrinter")
          /\ hist' = [hist EXCEPT
                        ![r] = Raised([@ EXCEPT !.opens = @ + 1],
                                      "OpenPrinter")]
          /\ UNCHANGED loc
    /\ UNCHANGED <<call, printer, plat, body, spool, fs>>

WinStartDoc(r) ==
    /\ pc[r] = "w_startdoc"
    /\ \/ /\ spool' = Append(spool, [owner |-> r, segs |-> <<>>,
                                     page |-> "none", ended |-> FALSE])
          /\ loc' = [loc EXCEPT ![r].doc = Len(spool) + 1]
          /\ hist' = [hist EXCEPT ![r].docs = @ + 1]
          /\ Goto(r, "w_startpage")
       \/ /\ RaiseInner(r, "StartDocPrinter")
          /\ hist' = [hist EXCEPT
                        ![r] = Raised([@ EXCEPT !.docs = @ + 1],
                                      "StartDocPrinter")]
          /\ UNCHANGED spool
    /\ UNCHANGED <<call, printer, plat, body, fs>>

WinStartPage(r) ==
    /\ pc[r] = "w_startpage"
    /\ \/ /\ spool' = [spool EXCEPT ![loc[r].doc].page = "started"]
          /\ Goto(r, "w_kick")
          /\ UNCHANGED <<loc, hist>>
       \/ /\ RaiseInner(r, "StartPagePrinter")
          /\ hist' = [hist EXCEPT ![r] = Raised(@, "StartPagePrinter")]
          /\ UNCHANGED spool
    /\ UNCHANGED <<call, printer, plat, body, fs>>

\* One WritePrinter call of the sequence: seg is written and control goes
\* to next, or the call raises.
WriteStep(r, seg, next) ==
    /\ \/ /\ WritePrinter(r, seg)
          /\ Goto(r, next)
          /\ UNCHANGED <<loc, hist>>
       \/ /\ RaiseInner(r, "WritePrinter")
          /\ hist' = [hist EXCEPT ![r] = Raised(@, "WritePrinter")]
          /\ UNCHANGED spool
    /\ UNCHANGED <<call, printer, plat, body, fs>>

\* Mutant of WinKickDrawer: the drawer-kick write is left out.
WinKickDrawerSkipped(r) ==
    /\ pc[r] = "w_kick"
    /\ Goto(r, "w_logo")
    /\ UNCHANGED <<call, printer, plat, body, loc, spool, fs, hist>>

\* A: win32print.WritePrinter(ph, drawer_cmd)
WinKickDrawer(r) ==
    /\ pc[r] = "w_kick"
    /\ WriteStep(r, drawer_cmd, "w_logo")

\* B: the logo is converted only if it is requested and available.
WinLogo(r) ==
    /\ pc[r] = "w_logo"
    /\ IF ShouldPrintLogo(body[r])
       THEN LET conv == convert_image_to_escpos(body[r].logo)
            IN  IF conv.raised
                THEN /\ RaiseInner(r, "convert_image_to_escpos")
                     /\ hist' = [hist EXCEPT
                                   ![r] = Raised(
                                       [@ EXCEPT !.converts = @ + 1],
                                       "convert_image_to_escpos")]
                ELSE /\ loc' = [loc EXCEPT ![r].logo_bytes = conv.bytes]
                     /\ hist' = [hist EXCEPT ![r].converts = @ + 1]
                     /\ Goto(r, IF conv.bytes # <<>> THEN "w_center"
                                ELSE "w_text")
       ELSE /\ Goto(r, "w_text")
            /\ UNCHANGED <<loc, hist>>
    /\ UNCHANGED <<call, printer, plat, body, spool, fs>>

\* 1. Center Align
WinCenter(r) ==
    /\ pc[r] = "w_center"
    /\ WriteStep(r, ALIGN_CENTER, "w_logodata")

\* 2. Print Image
WinLogoData(r) ==
    /\ pc[r] = "w_logodata"
    /\ WriteStep(r, loc[r].logo_bytes, "w_left")

\* 3. Reset to Left Align
WinLeft(r) ==
    /\ pc[r] = "w_left"
    /\ WriteStep(r, ALIGN_LEFT, "w_text")

\* C: win32print.WritePrinter(ph, receipt_bytes)
WinText(r) ==
    /\ pc[r] = "w_text"
    /\ WriteStep(r, loc[r].receipt_bytes, "w_endpage")

WinEndPage(r) ==
    /\ pc[r] = "w_endpage"
    /\ \/ /\ spool' = [spool EXCEPT ![loc[r].doc].page = "ended"]
          /\ Goto(r, "w_enddoc")
          /\ UNCHANGED <<loc, hist>>
       \/ /\ RaiseInner(r, "EndPagePrinter")
          /\ hist' = [hist EXCEPT ![r] = Raised(@, "EndPagePrinter")]
          /\ UNCHANGED spool
    /\ UNCHANGED <<call, printer, plat, body, fs>>

\* finally: EndDocPrinter(ph).  If it raises, ClosePrinter is skipped and
\* the exception reaches the outer except.
WinEndDoc(r) ==
    /\ pc[r] = "w_enddoc"
    /\ \/ /\ spool' = IF loc[r].doc = 0 THEN spool
                      ELSE [spool EXCEPT ![loc[r].doc].ended = TRUE]
          /\ Goto(r, "w_close")
          /\ UNCHANGED <<loc, hist>>
       \/ /\ Except(r, "EndDocPrinter")
          /\ loc' = [loc EXCEPT ![r].exc = "EndDocPrinter"]
          /\ hist' = [hist EXCEPT ![r] = Raised(@, "EndDocPrinter")]
          /\ UNCHANGED spool
    /\ UNCHANGED <<call, printer, plat, body, fs>>

\* Mutant of AfterFinally: the pending exception is swallowed.
AfterFinallySwallowed(r, exc) == Return(r, 200, "success")

\* What the handler answers once the finally block is through: the pending
\* exception reaches the outer except, or "success" is returned.
AfterFinally(r, exc) ==
    IF exc # "none" THEN Except(r, exc) ELSE Return(r, 200, "success")

\* finally: ClosePrinter(ph), then the pending exception or the success
\* response.
WinClosePrinter(r) ==
    /\ pc[r] = "w_close"
    /\ \/ /\ loc' = [loc EXCEPT ![r].ph = "closed"]
          /\ AfterFinally(r, loc[r].exc)
          /\ UNCHANGED hist
       \/ /\ Except(r, "ClosePrinter")
          /\ loc' = [loc EXCEPT ![r].exc = "ClosePrinter"]
          /\ hist' = [hist EXCEPT ![r] = Raised(@, "ClosePrinter")]
    /\ UNCHANGED <<call, printer, plat, body, spool, fs>>

WinStep(r) ==
    \/ WinValidate(r) \/ WinDecode(r) \/ WinOpenPrinter(r) \/ WinStartDoc(r)
    \/ WinStartPage(r) \/ WinKickDrawer(r) \/ WinLogo(r) \/ WinCenter(r)
    \/ WinLogoData(r) \/ WinLeft(r) \/ WinText(r) \/ WinEndPage(r)
    \/ WinEndDoc(r) \/ WinClosePrinter(r)

(***************************************************************************)
(* print_raw_bytes, macOS (rendered path).                                 *)
(***************************************************************************)
\* "Determine text to render": plainTextReceipt if it is truthy, else the
\* base64 data field decoded as UTF-8; Failed stands for "No data provided".
ResolveText(b) ==
    IF Truthy(b.plainTextReceipt) THEN Ok(b.plainTextReceipt.v)
    ELSE IF ~Truthy(b.data) THEN Failed
    ELSE LET dec == B64Decode(b.data)
         IN  IF dec.ok THEN Ok(Utf8Decode(dec.bytes, 1, <<>>)) ELSE Ok(<<>>)

\* logo_for_render = b64_logo if (should_print_logo and b64_logo) else None
LogoForRender(b) == IF ShouldPrintLogo(b) THEN b.logo ELSE Absent

\* load_selected, the resolution of the text and its checks.
MacValidate(r) ==
    /\ pc[r] = "start" /\ plat[r] = "mac"
    /\ LET txt == ResolveText(body[r])
       IN  IF ~printer
           THEN Return(r, 404, "No printer selected") /\ UNCHANGED loc
           ELSE IF ~txt.ok
           THEN Return(r, 400, "No data provided") /\ UNCHANGED loc
           ELSE IF Strip(txt.bytes) = <<>>
           THEN Return(r, 400, "Empty receipt text") /\ UNCHANGED loc
           ELSE /\ loc' = [loc EXCEPT
                             ![r].plain_text = txt.bytes,
                             ![r].logo_for_render = LogoForRender(body[r])]
                /\ Goto(r, "m_render")
    /\ UNCHANGED <<call, printer, plat, body, spool, fs, hist>>

\* render_receipt_to_image up to the canvas: the logo is decoded if one was
\* passed, and the canvas is sized.
MacRender(r) ==
    /\ pc[r] = "m_render"
    /\ LET img == DecodeLogoImage(loc[r].logo_for_render)
       IN  loc' = [loc EXCEPT
                     ![r].logo_img = img,
                     ![r].height = CanvasHeight(loc[r].plain_text, img)]
    /\ hist' = [hist EXCEPT ![r].converts =
                   IF Truthy(loc[r].logo_for_render) THEN @ + 1 ELSE @]
    /\ Goto(r, "m_tmp")
    /\ UNCHANGED <<call, printer, plat, body, spool, fs>>

\* tmp = tempfile.NamedTemporaryFile(suffix=".png", delete=False): a new
\* file under a name no other file has, open for writing.
MacTmpCreate(r) ==
    /\ pc[r] = "m_tmp"
    /\ \/ /\ fs' = Append(fs, [owner |-> r, exists |-> TRUE,
                               handle |-> "open", saved |-> FALSE])
          /\ loc' = [loc EXCEPT ![r].png_path = Len(fs) + 1]
          /\ hist' = [hist EXCEPT ![r].tmps = @ + 1]
          /\ Goto(r, "m_tmpclose")
       \/ /\ Except(r, "NamedTemporaryFile")
          /\ hist' = [hist EXCEPT ![r] = Raised(@, "NamedTemporaryFile")]
          /\ UNCHANGED <<fs, loc>>
    /\ UNCHANGED <<call, printer, plat, body, spool>>

\* tmp.close()
MacTmpClose(r) ==
    /\ pc[r] = "m_tmpclose"
    /\ fs' = [fs EXCEPT ![loc[r].png_path].handle = "closed"]
    /\ Goto(r, "m_save")
    /\ UNCHANGED <<call, printer, plat, body, loc, spool, hist>>

\* canvas.save(tmp_path, "PNG"): opens, writes and closes the file, or
\* raises out of print_raster_ticket (which has not entered its try yet).
MacSave(r) ==
    /\ pc[r] = "m_save"
    /\ \/ /\ fs' = [fs EXCEPT ![loc[r].png_path].saved = TRUE]
          /\ Goto(r, "m_lp")
          /\ UNCHANGED hist
       \/ /\ Except(r, "save")
          /\ hist' = [hist EXCEPT ![r] = Raised(@, "save")]
          /\ UNCHANGED fs
    /\ UNCHANGED <<call, printer, plat, body, loc, spool>>

\* subprocess.run(["lp", "-d", printer_name, png_path]): it returns 0,
\* returns another code, or raises itself.
MacLp(r) ==
    /\ pc[r] = "m_lp"
    /\ \E outcome \in {"zero", "nonzero", "raised"} :
          /\ loc' = [loc EXCEPT ![r].lp = outcome]
          /\ hist' = [hist EXCEPT ![r] =
                [@ EXCEPT
                   !.lps = @ + 1,
                   !.handleOpenAtLp = fs[loc[r].png_path].handle = "open",
                   !.raised = IF outcome = "zero" THEN @ ELSE @ \cup {"lp"}]]
    /\ Goto(r, "m_finally")
    /\ UNCHANGED <<call, printer, plat, body, spool, fs>>

\* Mutant of LpSucceeded: the return code of lp is not checked.
LpSucceededUnchecked(outcome) == outcome # "raised"

\* if result.returncode != 0: raise RuntimeError(...); an exception of
\* subprocess.run passes through as well.  TRUE when nothing is raised.
LpSucceeded(outcome) == outcome = "zero"

\* Mutant of ReleaseTmp: the PNG is removed once lp has taken it.
ReleaseTmpOnSuccess(f, outcome) ==
    IF outcome = "zero" THEN [f EXCEPT !.exists = FALSE] ELSE f

\* The file after the finally block of print_raster_ticket: the PNG is kept
\* (the os.remove is commented out).
ReleaseTmp(f, outcome) == f

\* finally: "Keeping temp PNG"; then the response of print_raw_bytes.
MacFinally(r) ==
    /\ pc[r] = "m_finally"
    /\ fs' = [fs EXCEPT ![loc[r].png_path] = ReleaseTmp(@, loc[r].lp)]
    /\ IF LpSucceeded(loc[r].lp) THEN Return(r, 200, "success")
       ELSE Except(r, "lp")
    /\ UNCHANGED <<call, printer, plat, body, loc, spool, hist>>

MacStep(r) ==
    \/ MacValidate(r) \/ MacRender(r) \/ MacTmpCreate(r) \/ MacTmpClose(r)
    \/ MacSave(r) \/ MacLp(r) \/ MacFinally(r)

Next == \E r \in Reqs : WinStep(r) \/ MacStep(r)

Spec == Init /\ [][Next]_vars

(***************************************************************************)
(* The functions of the pipeline called on their own: the argument is      *)
(* drawn from a catalogue and the function is applied to it.  No request   *)
(* is in progress.                                                         *)
(***************************************************************************)
\* Sizes (width, height) of the images of the catalogue.
Sizes ==
    {<<1, 1>>, <<7, 2>>, <<8, 3>>, <<9, 300>>, <<15, 1>>, <<16, 65535>>,
     <<16, 65536>>, <<100, 60>>, <<384, 2>>, <<385, 2>>, <<483, 161>>,
     <<500, 2>>, <<576, 1>>, <<577, 1>>, <<600, 1>>, <<723, 1205>>,
     <<800, 400>>}

Grays == {0, threshold, threshold + 1, 255}

\* Strings that are no image.
NoImageStrings ==
    {<<>>, <<65>>, B64Encode(<<84, 49, 10>>), B64Encode(<<137, 0, 0>>)}

Lines3 == <<97, 10, 98, 10, 99>>                          \* "a\nb\nc"

RenderTexts == {<<>>, <<97>>, Lines3, Lines3 \o <<10>>, TOTAL}

Pending(fn, arg, src) ==
    [fn |-> fn, arg |-> arg, src |-> src, returned |-> FALSE, out |-> <<>>]

ConvertCalls ==
    {Pending("convert_image_to_escpos",
             Str(B64Encode(ImageBytes(sz[1], sz[2], g))),
             Img(sz[1], sz[2], g)) : sz \in Sizes, g \in Grays}
    \cup {Pending("convert_image_to_escpos", Str(x), NoImage) :
              x \in NoImageStrings}
    \cup {Pending("convert_image_to_escpos",
                  Str(<<100, 58, 120, 44>>
                      \o B64Encode(ImageBytes(9, 2, 0))),
                  Img(9, 2, 0))}

ResizeCalls ==
    {Pending("resize", [im |-> Img(sz[1], sz[2], g), max_width |-> m],
             Img(sz[1], sz[2], g)) :
        sz \in Sizes, g \in {0}, m \in {MAX_WIDTH, max_width}}

PointCalls == {Pending("point", p, NoImage) : p \in 0..255}

RenderCalls ==
    {Pending("render_receipt_to_image",
             [plain_text |-> t,
              logo_b64 |-> Str(B64Encode(ImageBytes(sz[1], sz[2], 0)))],
             Img(sz[1], sz[2], 0)) :
        t \in RenderTexts, sz \in {<<100, 60>>, <<576, 1>>, <<600, 1>>,
                                   <<800, 400>>}}
    \cup {Pending("render_receipt_to_image",
                  [plain_text |-> t, logo_b64 |-> j], NoImage) :
              t \in RenderTexts, j \in {Absent, Str(<<65>>)}}

Return1(out) == call' = [call EXCEPT !.returned = TRUE, !.out = out]

FnInit ==
    /\ printer = TRUE
    /\ plat = [r \in Reqs |-> "windows"]
    /\ body = [r \in Reqs |-> NoBody]
    /\ pc = [r \in Reqs |-> "idle"]
    /\ loc = [r \in Reqs |-> NoLocals]
    /\ resp = [r \in Reqs |-> NoResp]
    /\ spool = <<>>
    /\ fs = <<>>
    /\ hist = [r \in Reqs |-> NoHist]
    /\ call \in ConvertCalls \cup ResizeCalls \cup PointCalls
                \cup RenderCalls

\* logo_bytes = convert_image_to_escpos(b64_logo)
ApplyConvert ==
    /\ call.fn = "convert_image_to_escpos" /\ ~call.returned
    /\ Return1(convert_image_to_escpos(call.arg))
    /\ UNCHANGED <<printer, plat, body, pc, loc, resp, spool, fs, hist>>

\* The resize step of convert_image_to_escpos (max_width = MAX_WIDTH) and
\* of render_receipt_to_image (max_width = 576).
ApplyResize ==
    /\ call.fn = "resize" /\ ~call.returned
    /\ Return1(Resize(call.arg.im, call.arg.max_width))
    /\ UNCHANGED <<printer, plat, body, pc, loc, resp, spool, fs, hist>>

\* One entry of the table of im.point(lambda p: ...)
ApplyPoint ==
    /\ call.fn = "point" /\ ~call.returned
    /\ Return1(Threshold(call.arg))
    /\ UNCHANGED <<printer, plat, body, pc, loc, resp, spool, fs, hist>>

\* render_receipt_to_image up to the creation of the canvas.
ApplyRender ==
    /\ call.fn = "render_receipt_to_image" /\ ~call.returned
    /\ LET logo_img == DecodeLogoImage(call.arg.logo_b64)
       IN  Return1([logo_img |-> logo_img,
                    height |-> CanvasHeight(call.arg.plain_text, logo_img)])
    /\ UNCHANGED <<printer, plat, body, pc, loc, resp, spool, fs, hist>>

FnNext == ApplyConvert \/ ApplyResize \/ ApplyPoint \/ ApplyRender

FnSpec == FnInit /\ [][FnNext]_vars

(***************************************************************************)
(* Two /print/raw requests served at the same time by the threads of one   *)
(* service: their steps interleave in any order.                           *)
(***************************************************************************)
ConcBodies ==
    {[plainTextReceipt |-> Absent,
      data |-> Str(B64Encode(Utf8Encode(TOTAL))),
      logo |-> Str(B64Encode(ImageBytes(9, 1, threshold))),
      printLogo |-> JTrue],
     [plainTextReceipt |-> Absent,
      data |-> Str(B64Encode(Utf8Encode(<<233, 10>>))),
      logo |-> Absent,
      printLogo |-> JFalse],
     [plainTextReceipt |-> Str(TOTAL),
      data |-> Absent,
      logo |-> Str(<<65>>),
      printLogo |-> JTrue]}

ConcInit ==
    /\ printer = TRUE
    /\ \E p \in {"windows", "mac"} : plat = [r \in Reqs |-> p]
    /\ body \in [Reqs -> ConcBodies]
    /\ pc = [r \in Reqs |-> "start"]
    /\ loc = [r \in Reqs |-> NoLocals]
    /\ resp = [r \in Reqs |-> NoResp]
    /\ spool = <<>>
    /\ fs = <<>>
    /\ hist = [r \in Reqs |-> NoHist]
    /\ call = NoCall

ConcSpec == ConcInit /\ [][Next]_vars

(***************************************************************************)
(* open_drawer (/print/drawer) and test_print (/print/test), Windows: one  *)
(* try block with the whole sequence of win32print calls and no finally;   *)
(* an exception of any call goes to the except clause.                     *)
(***************************************************************************)
Routes == {"/print/drawer", "/print/test"}

\* cmd of open_drawer, data of test_print ("Success\n").
Payload(route) ==
    IF route = "/print/drawer" THEN drawer_cmd
    ELSE <<83, 117, 99, 99, 101, 115, 115, 10>>

Result(route) ==
    IF route = "/print/drawer" THEN Resp(200, "drawer opened")
    ELSE Resp(200, "test printed")

Failure(route) ==
    IF route = "/print/drawer" THEN Resp(500, "Failed to open drawer")
    ELSE Resp(500, "Failed to test print")

\* except Exception: the call named e raised; nothing is cleaned up.
DirectExcept(r, e) ==
    /\ resp' = [resp EXCEPT ![r] = Failure(loc[r].route)]
    /\ pc' = [pc EXCEPT ![r] = "done"]
    /\ hist' = [hist EXCEPT ![r] = Raised(@, e)]

DirectValidate(r) ==
    /\ pc[r] = "d_start" /\ plat[r] = "windows"
    /\ IF ~printer THEN Return(r, 404, "No printer selected")
       ELSE Goto(r, "d_open")
    /\ UNCHANGED <<call, printer, plat, body, loc, spool, fs, hist>>

DirectOpenPrinter(r) ==
    /\ pc[r] = "d_open"
    /\ \/ /\ loc' = [loc EXCEPT ![r].ph = "open"]
          /\ hist' = [hist EXCEPT ![r].opens = @ + 1]
          /\ Goto(r, "d_startdoc")
       \/ /\ DirectExcept(r, "OpenPrinter")
          /\ UNCHANGED loc
    /\ UNCHANGED <<call, printer, plat, body, spool, fs>>

DirectStartDoc(r) ==
    /\ pc[r] = "d_startdoc"
    /\ \/ /\ spool' = Append(spool, [owner |-> r, segs |-> <<>>,
                                     page |-> "none", ended |-> FALSE])
          /\ loc' = [loc EXCEPT ![r].doc = Len(spool) + 1]
          /\ hist' = [hist EXCEPT ![r].docs = @ + 1]
          /\ Goto(r, "d_startpage")
       \/ /\ DirectExcept(r, "StartDocPrinter")
          /\ UNCHANGED <<spool, loc>>
    /\ UNCHANGED <<call, printer, plat, body, fs>>

DirectStartPage(r) ==
    /\ pc[r] = "d_startpage"
    /\ \/ /\ spool' = [spool EXCEPT ![loc[r].doc].page = "started"]
          /\ Goto(r, "d_write")
          /\ UNCHANGED hist
       \/ /\ DirectExcept(r, "StartPagePrinter")
          /\ UNCHANGED spool
    /\ UNCHANGED <<call, printer, plat, body, loc, fs>>

DirectWrite(r) ==
    /\ pc[r] = "d_write"
    /\ \/ /\ WritePrinter(r, Payload(loc[r].route))
          /\ Goto(r, "d_endpage")
          /\ UNCHANGED hist
       \/ /\ DirectExcept(r, "WritePrinter")
          /\ UNCHANGED spool
    /\ UNCHANGED <<call, printer, plat, body, loc, fs>>

DirectEndPage(r) ==
    /\ pc[r] = "d_endpage"
    /\ \/ /\ spool' = [spool EXCEPT ![loc[r].doc].page = "ended"]
          /\ Goto(r, "d_enddoc")
          /\ UNCHANGED hist
       \/ /\ DirectExcept(r, "EndPagePrinter")
          /\ UNCHANGED spool
    /\ UNCHANGED <<call, printer, plat, body, loc, fs>>

DirectEndDoc(r) ==
    /\ pc[r] = "d_enddoc"
    /\ \/ /\ spool' = [spool EXCEPT ![loc[r].doc].ended = TRUE]
          /\ Goto(r, "d_close")
          /\ UNCHANGED hist
       \/ /\ DirectExcept(r, "EndDocPrinter")
          /\ UNCHANGED spool
    /\ UNCHANGED <<call, printer, plat, body, loc, fs>>

\* ClosePrinter(ph), then the result is returned.
DirectClosePrinter(r) ==
    /\ pc[r] = "d_close"
    /\ \/ /\ loc' = [loc EXCEPT ![r].ph = "closed"]
          /\ resp' = [resp EXCEPT ![r] = Result(loc[r].route)]
          /\ pc' = [pc EXCEPT ![r] = "done"]
          /\ UNCHANGED hist
       \/ /\ DirectExcept(r, "ClosePrinter")
          /\ UNCHANGED loc
    /\ UNCHANGED <<call, printer, plat, body, spool, fs>>

DirectStep(r) ==
    \/ DirectValidate(r) \/ DirectOpenPrinter(r) \/ DirectStartDoc(r)
    \/ DirectStartPage(r) \/ DirectWrite(r) \/ DirectEndPage(r)
    \/ DirectEndDoc(r) \/ DirectClosePrinter(r)

\* One request to one of the three printing endpoints of the Windows
\* service.
HandleInit ==
    /\ printer \in BOOLEAN
    /\ plat = [r \in Reqs |-> "windows"]
    /\ \/ /\ \E b \in ConcBodies :
                body = [r \in Reqs |-> IF r = 1 THEN b ELSE NoBody]
          /\ pc = [r \in Reqs |-> IF r = 1 THEN "start" ELSE "idle"]
          /\ loc = [r \in Reqs |-> NoLocals]
       \/ /\ body = [r \in Reqs |-> NoBody]
          /\ pc = [r \in Reqs |-> IF r = 1 THEN "d_start" ELSE "idle"]
          /\ \E route \in Routes :
                loc = [r \in Reqs |->
                          IF r = 1 THEN [NoLocals EXCEPT !.route = route]
                          ELSE NoLocals]
    /\ resp = [r \in Reqs |-> NoResp]
    /\ spool = <<>>
    /\ fs = <<>>
    /\ hist = [r \in Reqs |-> NoHist]
    /\ call = NoCall

HandleNext ==
    \E r \in Reqs :
        \/ WinValidate(r) \/ WinDecode(r) \/ WinOpenPrinter(r)
        \/ WinStartDoc(r) \/ WinStartPage(r) \/ WinKickDrawer(r)
        \/ WinLogo(r) \/ WinCenter(r) \/ WinLogoData(r) \/ WinLeft(r)
        \/ WinText(r) \/ WinEndPage(r) \/ WinEndDoc(r)
        \/ WinClosePrinter(r) \/ DirectStep(r)

HandleSpec == HandleInit /\ [][HandleNext]_vars

(***************************************************************************)
(* Vocabulary of the properties.                                           *)
(***************************************************************************)
\* The segments the print document of r has received, one per WritePrinter.
Written(r) == IF loc[r].doc = 0 THEN <<>> ELSE spool[loc[r].doc].segs

RECURSIVE Flatten(_)
Flatten(segs) ==
    IF segs = <<>> THEN <<>> ELSE Head(segs) \o Flatten(Tail(segs))

IsPrefix(s, t) == Len(s) <= Len(t) /\ SubSeq(t, 1, Len(s)) = s

Raw(r) == plat[r] = "windows"
Rendered(r) == plat[r] = "mac"
Done(r) == pc[r] = "done"

KICK == <<27, 112, 0, 25, 250>>
CENTER == <<27, 97, 1>>
LEFT == <<27, 97, 0>>

\* The receipt text bytes of a raw-path request as supplied in data.
SuppliedBytes(b) == B64Decode(b.data).bytes

\* The logo takes part: printLogo truthy, a logo supplied, and a conversion
\* that yields bytes.
LogoTakesPart(b) ==
    /\ Truthy(b.printLogo) /\ Truthy(b.logo) /\ b.logo.t = "str"
    /\ EscposOf(b.logo.v) # <<>>

\* The segments of the whole job, in the order of the contract.
JobSegments(b) ==
    <<KICK>>
    \o (IF LogoTakesPart(b) THEN <<CENTER, EscposOf(b.logo.v), LEFT>>
        ELSE <<>>)
    \o <<SuppliedBytes(b)>>

(***************************************************************************)
(* C1.  The bytes a raw-path job writes to the printer are, in this order  *)
(* and nothing else: the drawer-kick 1B 70 00 19 FA; then, iff printLogo   *)
(* is truthy, a logo is supplied and its conversion is not empty, 1B 61 01,*)
(* the logo raster and 1B 61 00; then the receipt bytes as supplied.  At   *)
(* every moment the bytes written are a prefix of that sequence, and a job *)
(* answered "success" has written all of it.                               *)
(***************************************************************************)
C1_RawJobBytes ==
    \A r \in Reqs :
        Raw(r) =>
            /\ IsPrefix(Flatten(Written(r)), Flatten(JobSegments(body[r])))
            /\ resp[r].msg = "success" =>
                   Flatten(Written(r)) = Flatten(JobSegments(body[r]))

\* A job with a logo was written in full and answered "success".
C1_Witness ==
    \E r \in Reqs :
        /\ Raw(r) /\ resp[r].msg = "success"
        /\ Len(Written(r)) = 5
        /\ Len(Flatten(Written(r))) > 5 + 3 + 8 + 3

(***************************************************************************)
(* C2.  As claimed: the job reaches the transport in one atomic write, so  *)
(* no request ends with a proper, non-empty prefix of its segments         *)
(* delivered.                                                              *)
(***************************************************************************)
C2_AtomicWrite ==
    \A r \in Reqs :
        (Raw(r) /\ Done(r)) =>
            \/ Written(r) = <<>>
            \/ Written(r) = JobSegments(body[r])

(***************************************************************************)
(* C2, amended.  The job is written segment by segment, one WritePrinter   *)
(* call each, inside one print document: the document always holds the     *)
(* first k segments of the job in order; a request answered "success" has  *)
(* delivered all of them, and a request that ends with a proper prefix     *)
(* delivered (a later call raised) is answered with the error 500.         *)
(***************************************************************************)
C2_SegmentPrefix ==
    \A r \in Reqs :
        Raw(r) =>
            /\ IsPrefix(Written(r), JobSegments(body[r]))
            /\ hist[r].docs <= 1
            /\ (Done(r) /\ Written(r) # JobSegments(body[r])) =>
                   resp[r].code \in {404, 400, 500}

\* A request ended with the drawer-kick and the logo delivered and the text
\* not.
C2_Witness ==
    \E r \in Reqs :
        /\ Raw(r) /\ Done(r) /\ resp[r].code = 500
        /\ Len(Written(r)) = 4
        /\ Len(JobSegments(body[r])) = 5

\* The steps of the handler that come before the drawer-kick is written.
BeforeKick == {"b64decode", "OpenPrinter", "StartDocPrinter",
               "StartPagePrinter"}

AfterKick == {"w_logo", "w_center", "w_logodata", "w_left", "w_text",
              "w_endpage"}

(***************************************************************************)
(* C3.  As claimed: every raw-path job that passes request validation      *)
(* (printer selected, receipt data present) has the drawer-kick written,   *)
(* whatever fails in the job, and nothing is written before it.            *)
(***************************************************************************)
C3_KickUnconditional ==
    \A r \in Reqs :
        (Raw(r) /\ Done(r) /\ printer /\ Truthy(body[r].data)) =>
            Written(r) # <<>> /\ Written(r)[1] = KICK

(***************************************************************************)
(* C3, amended.  The drawer-kick is the first write of a raw-path job: no  *)
(* byte is written before it, and it is written (and stays written) even   *)
(* when a later step fails: the logo conversion, a later write, or the     *)
(* closing calls.  It is not unconditional: the data field is base64-      *)
(* decoded and the printer, document and page are opened before it, and a  *)
(* validated job in which one of those steps or the kick write itself      *)
(* raises ends with the error 500 and no drawer-kick.                      *)
(***************************************************************************)
C3_KickFirst ==
    \A r \in Reqs :
        Raw(r) =>
            /\ Written(r) # <<>> => Written(r)[1] = KICK
            /\ pc[r] \in AfterKick => Written(r) # <<>>
            /\ (Done(r) /\ printer /\ Truthy(body[r].data)
                /\ hist[r].raised \cap BeforeKick = {}) =>
                   \/ Written(r) # <<>>
                   \/ "WritePrinter" \in hist[r].raised
            /\ (Done(r) /\ hist[r].raised \cap BeforeKick # {}) =>
                   Written(r) = <<>> /\ resp[r].code = 500

\* The text write raised after the drawer-kick: the kick stays written and
\* the job fails.
C3_Witness ==
    \E r \in Reqs :
        /\ Raw(r) /\ Done(r) /\ resp[r].code = 500
        /\ Written(r) = <<KICK>>
        /\ hist[r].raised = {"WritePrinter"}

(***************************************************************************)
(* C4.  A request with plainTextReceipt "Total: 10\n", no data field and   *)
(* printLogo false is accepted on the raw path, and its buffer is the      *)
(* drawer-kick followed by the UTF-8 bytes of plainTextReceipt, with no    *)
(* alignment code.                                                         *)
(***************************************************************************)
C4_PlainTextRawJob ==
    \A r \in Reqs :
        (/\ Raw(r) /\ Done(r) /\ printer
         /\ body[r].plainTextReceipt = Str(TOTAL)
         /\ body[r].data = Absent
         /\ body[r].printLogo = JFalse) =>
            /\ resp[r].code # 400
            /\ resp[r].msg = "success" =>
                   Written(r) = <<KICK, Utf8Encode(TOTAL)>>

\* Logos of the input catalogue that cannot be decoded or resized.
BrokenLogos ==
    {Str(<<65>>), Str(B64Encode(<<84, 49, 10>>))}
    \cup {Str(B64Encode(ImageBytes(600, 1, g))) : g \in {190, 191}}

(***************************************************************************)
(* C5.  With printLogo true and a logo that cannot be decoded (malformed   *)
(* base64 or image bytes) or resized, the job is the job without a logo    *)
(* and does not fail because of the logo: the raw path writes the          *)
(* drawer-kick and the receipt text only, the rendered path sizes the page *)
(* with logo height 0 and no logo spacing, and no exception escapes the    *)
(* logo conversion.                                                        *)
(***************************************************************************)
C5_BrokenLogoOmitted ==
    \A r \in Reqs :
        (Truthy(body[r].printLogo) /\ body[r].logo \in BrokenLogos) =>
            /\ "convert_image_to_escpos" \notin hist[r].raised
            /\ resp[r].code = 500 => resp[r].msg \in hist[r].raised
            /\ Raw(r) =>
                   /\ IsPrefix(Written(r), <<KICK, SuppliedBytes(body[r])>>)
                   /\ loc[r].logo_bytes = <<>>
                   /\ (Done(r) /\ printer /\ Truthy(body[r].data)
                       /\ hist[r].raised = {}) => resp[r].msg = "success"
            /\ Rendered(r) =>
                   /\ ~loc[r].logo_img.ok
                   /\ pc[r] \in {"m_tmp", "m_tmpclose", "m_save", "m_lp",
                                 "m_finally"} =>
                          loc[r].height =
                              20 + 18 * LineCount(loc[r].plain_text) + 20
                   /\ (Done(r) /\ hist[r].lps = 1 /\ hist[r].raised = {}) =>
                          resp[r].msg = "success"

\* A raw-path job whose logo could not be resized was printed without it.
C5_Witness ==
    \E r \in Reqs :
        /\ Raw(r) /\ resp[r].msg = "success"
        /\ body[r].printLogo = JTrue
        /\ body[r].logo = Str(B64Encode(ImageBytes(600, 1, 190)))
        /\ hist[r].converts = 1
        /\ Written(r) = <<KICK, SuppliedBytes(body[r])>>

NeitherField(b) == ~Truthy(b.plainTextReceipt) /\ ~Truthy(b.data)

\* The resolved text is known and is empty or whitespace-only.
BlankText(b) ==
    \/ Truthy(b.plainTextReceipt) /\ Strip(b.plainTextReceipt.v) = <<>>
    \/ /\ b.plainTextReceipt = Absent /\ Truthy(b.data)
       /\ B64Decode(b.data).ok
       /\ Strip(Utf8Decode(B64Decode(b.data).bytes, 1, <<>>)) = <<>>

NoWorkDone(r) ==
    /\ hist[r].opens = 0 /\ hist[r].docs = 0 /\ hist[r].converts = 0
    /\ hist[r].tmps = 0 /\ hist[r].lps = 0
    /\ Written(r) = <<>>

(***************************************************************************)
(* C6.  A request with neither plainTextReceipt nor data, and a request    *)
(* whose resolved receipt text is empty or whitespace-only, is rejected    *)
(* with an error response before any rendering, temp-file creation or      *)
(* printer transport call, on the raw and on the rendered path.            *)
(***************************************************************************)
C6_BlankRejected ==
    \A r \in Reqs :
        (NeitherField(body[r]) \/ BlankText(body[r])) =>
            /\ NoWorkDone(r)
            /\ Done(r) => resp[r].code \in {400, 404, 500}

AfterResolve == {"m_render", "m_tmp", "m_tmpclose", "m_save", "m_lp",
                 "m_finally"}

(***************************************************************************)
(* C7.  The receipt text is plainTextReceipt when it is present, and the   *)
(* data field is then ignored; the data field is used only when            *)
(* plainTextReceipt is absent, decoded as UTF-8 with invalid sequences     *)
(* dropped; an undecodable data field is answered by the handler.          *)
(***************************************************************************)
C7_TextResolution ==
    \A r \in Reqs :
        printer =>
            /\ (Truthy(body[r].plainTextReceipt)
                /\ Strip(body[r].plainTextReceipt.v) # <<>>) =>
                   /\ Done(r) => resp[r].code # 400
                   /\ (Rendered(r) /\ pc[r] \in AfterResolve) =>
                          loc[r].plain_text = body[r].plainTextReceipt.v
                   /\ (Raw(r) /\ resp[r].msg = "success") =>
                          Written(r)[Len(Written(r))] =
                              Utf8Encode(body[r].plainTextReceipt.v)
            /\ (~Truthy(body[r].plainTextReceipt) /\ Truthy(body[r].data)
                /\ B64Decode(body[r].data).ok
                /\ Rendered(r) /\ pc[r] \in AfterResolve) =>
                   loc[r].plain_text =
                           Utf8Decode(B64Decode(body[r].data).bytes, 1, <<>>)
            /\ (~Truthy(body[r].plainTextReceipt) /\ Truthy(body[r].data)
                /\ ~B64Decode(body[r].data).ok /\ Done(r)) =>
                   resp[r].code \in {400, 500}

\* printLogo is false or absent, or the logo is absent or empty.
NoLogoWanted(b) ==
    \/ b.printLogo \in {Absent, JFalse}
    \/ b.logo \in {Absent, Str(<<>>)}

(***************************************************************************)
(* C8.  The logo takes part in a job only if printLogo is true and a logo  *)
(* is present: when printLogo is false or absent, or the logo is absent or *)
(* empty, no logo decoding is attempted, the raw path writes no alignment  *)
(* code nor logo bytes, the rendered path passes no logo to the            *)
(* compositor, and printLogo true without a logo is not an error.          *)
(***************************************************************************)
C8_LogoOnlyIfRequested ==
    \A r \in Reqs :
        NoLogoWanted(body[r]) =>
            /\ hist[r].converts = 0
            /\ "convert_image_to_escpos" \notin hist[r].raised
            /\ Raw(r) =>
                   /\ IsPrefix(Written(r), <<KICK, SuppliedBytes(body[r])>>)
                   /\ (Done(r) /\ printer /\ Truthy(body[r].data)
                       /\ hist[r].raised = {}) => resp[r].msg = "success"
            /\ Rendered(r) =>
                   /\ loc[r].logo_for_render = Absent
                   /\ ~loc[r].logo_img.ok
                   /\ (Done(r) /\ hist[r].lps = 1 /\ hist[r].raised = {}) =>
                          resp[r].msg = "success"

\* printLogo true and no logo in the request: the job is printed.
C8_Witness ==
    \E r \in Reqs :
        /\ body[r].printLogo = JTrue /\ body[r].logo = Absent
        /\ Raw(r) /\ resp[r].msg = "success"
        /\ Len(Written(r)) = 2

(***************************************************************************)
(* C9.  A transport failure (lp returning a non-zero code, or a printing   *)
(* call raising) is answered as a failed job, never "success", and a       *)
(* request makes one submission attempt at most: one print document, one   *)
(* run of lp, and exactly one when it is answered "success".               *)
(***************************************************************************)
C9_FailureSurfacedOnce ==
    \A r \in Reqs :
        /\ hist[r].opens <= 1 /\ hist[r].docs <= 1 /\ hist[r].lps <= 1
        /\ (Done(r) /\ hist[r].raised # {}) =>
               resp[r].code = 500 /\ resp[r].msg # "success"
        /\ resp[r].msg = "success" =>
               IF Raw(r) THEN hist[r].docs = 1 ELSE hist[r].lps = 1

\* lp returned a non-zero code: the job failed after its one submission.
C9_Witness ==
    \E r \in Reqs :
        /\ Rendered(r) /\ Done(r) /\ loc[r].lp = "nonzero"
        /\ hist[r].lps = 1 /\ resp[r].code = 500

(***************************************************************************)
(* C10.  The page-image file of the rendered path is created, its write    *)
(* handle closed, the image saved, and only then handed to lp; after       *)
(* print_raster_ticket it is in the same state, retained with no open      *)
(* handle, whether lp returned 0, returned another code or raised.         *)
(***************************************************************************)
C10_TmpFileLifecycle ==
    \A r \in Reqs :
        Rendered(r) =>
            /\ hist[r].tmps <= 1
            /\ hist[r].lps > 0 =>
                   /\ hist[r].tmps = 1
                   /\ ~hist[r].handleOpenAtLp
                   /\ fs[loc[r].png_path].saved
            /\ (Done(r) /\ hist[r].lps > 0) =>
                   /\ fs[loc[r].png_path].exists
                   /\ fs[loc[r].png_path].handle = "closed"
            /\ \A i \in 1..Len(fs) :
                   fs[i].owner = r => i = loc[r].png_path

\* lp raised: the file was handed over closed and is retained.
C10_Witness ==
    \E r \in Reqs :
        /\ Rendered(r) /\ Done(r) /\ loc[r].lp = "raised"
        /\ fs[loc[r].png_path].exists
        /\ fs[loc[r].png_path].handle = "closed"

\* A convert_image_to_escpos call has returned, a resize step, ...
Converted == call.fn = "convert_image_to_escpos" /\ call.returned
Resized == call.fn = "resize" /\ call.returned
Pointed == call.fn = "point" /\ call.returned
RenderedPage == call.fn = "render_receipt_to_image" /\ call.returned

\* Bit j (0 is the most significant) of the byte x.
Bit(x, j) == (x \div Pow2(7 - j)) % 2

\* o is a raster block for a bitmap of the given width whose pixels are all
\* white or all black: header, little-endian sizes, and a payload that is
\* the packed bitmap (a set bit for a white pixel, MSB first, cleared pad
\* bits) with every byte XOR 0xFF.
WellFormedBlock(o, width, white) ==
    /\ Len(o) >= 8
    /\ SubSeq(o, 1, 4) = <<29, 118, 48, 0>>
    /\ LET widthBytes == o[5] + 256 * o[6]
           height == o[7] + 256 * o[8]
       IN  /\ width > 0 /\ height > 0
           /\ 8 * widthBytes >= width /\ 8 * (widthBytes - 1) < width
           /\ Len(o) = 8 + widthBytes * height
           /\ \A i \in 1..(widthBytes * height) :
                  /\ o[8 + i] \in 0..255
                  /\ \A j \in 0..7 :
                         Bit(255 - o[8 + i], j) =
                             IF 8 * ((i - 1) % widthBytes) + j < width
                                /\ white
                             THEN 1 ELSE 0

(***************************************************************************)
(* C11.  convert_image_to_escpos returns the empty byte sequence or a      *)
(* well-formed raster block: 1D 76 30 00, widthBytes = ceil(width/8) and   *)
(* the height as little-endian uint16, then exactly widthBytes * height    *)
(* payload bytes, each the packed bitmap byte XOR 0xFF; width and height   *)
(* are positive and fit in 16 bits, and an image that is not wider than    *)
(* 384 keeps its width and height.                                         *)
(***************************************************************************)
C11_RasterBlock ==
    Converted =>
        /\ ~call.out.raised
        /\ \/ call.out.bytes = <<>>
           \/ /\ call.src.ok
              /\ WellFormedBlock(call.out.bytes,
                                 IF call.src.width > 384 THEN 384
                                 ELSE call.src.width,
                                 call.src.gray > 190)
              /\ call.src.width <= 384 =>
                     /\ call.src.height < 65536
                     /\ call.out.bytes[7] + 256 * call.out.bytes[8]
                            = call.src.height

\* A 9 x 300 image gave a block of 2 x 300 payload bytes.
C11_Witness ==
    /\ Converted /\ call.src = Img(9, 300, 191)
    /\ SubSeq(call.out.bytes, 1, 8) = <<29, 118, 48, 0, 2, 0, 44, 1>>
    /\ Len(call.out.bytes) = 608
    /\ call.out.bytes[9] = 0 /\ call.out.bytes[10] = 127

(***************************************************************************)
(* C12.  Logo resize: an image wider than maxWidth is resampled to         *)
(* (maxWidth, round(height * maxWidth / width)), and an image that is not  *)
(* wider keeps its dimensions.  The rounded height is the integer nearest  *)
(* to height * maxWidth / width, whichever way a tie is broken.            *)
(***************************************************************************)
C12_ResizeRounded ==
    Resized =>
        LET im == call.arg.im
            m  == call.arg.max_width
            d  == call.out.height * im.width - im.height * m
        IN  IF im.width > m
            THEN /\ call.out.ok /\ call.out.width = m
                 /\ 2 * (IF d < 0 THEN 0 - d ELSE d) <= im.width
            ELSE call.out = im

\* The pieces of s.split("\n").
RECURSIVE Pieces(_)
Pieces(s) ==
    IF s = <<>> THEN 1
    ELSE (IF Head(s) = 10 THEN 1 ELSE 0) + Pieces(Tail(s))

(***************************************************************************)
(* C13.  The canvas height of the rendered page is topPadding (20) + the   *)
(* logo height (0 without a logo) + the logo spacing (20, only with a      *)
(* logo) + lineHeight (18) * max(lineCount, 1) + bottomPadding (20), where *)
(* lineCount is the number of pieces of the text split on newline: three   *)
(* lines give 94 without a logo and 174 with a logo 60 high, and an empty  *)
(* text reserves one line.                                                 *)
(***************************************************************************)
C13_CanvasHeight ==
    RenderedPage =>
        LET text  == call.arg.plain_text
            logo  == call.out.logo_img
            lines == IF Pieces(text) > 1 THEN Pieces(text) ELSE 1
        IN  /\ call.out.height =
                   20 + (IF logo.ok THEN logo.height + 20 ELSE 0)
                   + 18 * lines + 20
            /\ call.src = Img(100, 60, 0) => logo = Img(100, 60, 0)
            /\ ~call.src.ok => ~logo.ok
            /\ (text = Lines3 /\ ~call.src.ok) => call.out.height = 94
            /\ (text = Lines3 /\ call.src = Img(100, 60, 0)) =>
                   call.out.height = 174
            /\ (text = <<>> /\ ~call.src.ok) => call.out.height = 58

\* Three lines under a logo 60 high: the canvas is 174 high.
C13_Witness ==
    /\ RenderedPage /\ call.arg.plain_text = Lines3
    /\ call.out.logo_img.ok /\ call.out.logo_img.height = 60
    /\ call.out.height = 174

(***************************************************************************)
(* C14.  The threshold classification is strict: a gray value is white     *)
(* (255) iff it is greater than 190 and black (0) otherwise, so 190 is     *)
(* black and 191 white; in the raster block a black pixel is a set bit.    *)
(***************************************************************************)
C14_ThresholdStrict ==
    /\ Pointed =>
           /\ call.out \in {0, 255}
           /\ call.out = 255 <=> call.arg >= 191
           /\ call.arg = 190 => call.out = 0
           /\ call.arg = 191 => call.out = 255
    /\ (Converted /\ call.out.bytes # <<>>) =>
           (Bit(call.out.bytes[9], 0) = 1 <=> call.src.gray <= 190)

\* The gray value 190 was classified black.
C14_Witness == Pointed /\ call.arg = 190 /\ call.out = 0

\* The response of a raw-path request run alone, given the calls of its own
\* that raised.
SoloRaw(r) ==
    IF ~printer THEN resp[r] = Resp(404, "No printer selected")
    ELSE IF ~Truthy(body[r].data) THEN resp[r] = Resp(400, "No data provided")
    ELSE IF hist[r].raised = {}
    THEN /\ resp[r] = Resp(200, "success")
         /\ Written(r) = JobSegments(body[r])
    ELSE resp[r].code = 500 /\ resp[r].msg \in hist[r].raised

\* The response of a rendered-path request run alone.
SoloRendered(r) ==
    LET b == body[r]
        none == ~Truthy(b.plainTextReceipt) /\ ~Truthy(b.data)
        blank == IF Truthy(b.plainTextReceipt)
                 THEN Strip(b.plainTextReceipt.v) = <<>>
                 ELSE Strip(Utf8Decode(B64Decode(b.data).bytes, 1, <<>>))
                          = <<>>
    IN  IF ~printer THEN resp[r] = Resp(404, "No printer selected")
        ELSE IF none THEN resp[r] = Resp(400, "No data provided")
        ELSE IF blank THEN resp[r] = Resp(400, "Empty receipt text")
        ELSE IF hist[r].raised = {}
        THEN resp[r] = Resp(200, "success") /\ hist[r].lps = 1
        ELSE resp[r].code = 500 /\ resp[r].msg \in hist[r].raised

(***************************************************************************)
(* C15.  Concurrent /print/raw requests are independent: under every       *)
(* interleaving of two requests each print document holds the first        *)
(* segments, in order, of the job of the request that started it and no    *)
(* byte of the other job; the two requests never share a document or a     *)
(* temp file; and each request is answered as it is when run alone, by its *)
(* own body and its own failed calls.                                      *)
(***************************************************************************)
C15_RequestsIndependent ==
    /\ \A i \in 1..Len(spool) :
           /\ IsPrefix(spool[i].segs, JobSegments(body[spool[i].owner]))
           /\ loc[spool[i].owner].doc = i
    /\ \A i \in 1..Len(fs) : loc[fs[i].owner].png_path = i
    /\ \A r1, r2 \in Reqs :
           r1 # r2 =>
               /\ loc[r1].doc # 0 => loc[r1].doc # loc[r2].doc
               /\ loc[r1].png_path # 0 => loc[r1].png_path # loc[r2].png_path
    /\ \A r \in Reqs :
           Done(r) => IF Raw(r) THEN SoloRaw(r) ELSE SoloRendered(r)

\* Two documents with different jobs are being written at the same time.
C15_Witness ==
    /\ Raw(1) /\ Raw(2) /\ body[1] # body[2]
    /\ pc[1] = "w_text" /\ pc[2] = "w_left"
    /\ loc[1].doc = 2 /\ loc[2].doc = 1
    /\ Written(1) = <<KICK>>
    /\ Len(Written(2)) = 3

(***************************************************************************)
(* C16.  Printer handle lifecycle on Windows: in /print/raw, /print/drawer *)
(* and /print/test every handle obtained from OpenPrinter is closed with   *)
(* ClosePrinter before the handler returns, on the success path and when   *)
(* StartDocPrinter, StartPagePrinter, WritePrinter, EndPagePrinter or      *)
(* EndDocPrinter raises, so no request ends with an open printer handle or *)
(* a document that was started and not ended.                              *)
(***************************************************************************)
C16_HandleClosed ==
    \A r \in Reqs :
        (Done(r) /\ loc[r].ph # "none" /\ "ClosePrinter" \notin hist[r].raised) =>
            /\ loc[r].ph = "closed"
            /\ loc[r].doc # 0 => spool[loc[r].doc].ended

====
